---- MODULE Spec2Model ----
(***************************************************************************)
(* Model of the /chat and /search request handlers of app.py: the Query    *)
(* Normalizer (question templates), the Result Filter & Ranker (metadata   *)
(* cleaning, near-duplicate suppression, factual-first stable ranking,     *)
(* top-3 truncation) and the calls made to the memory store and to the     *)
(* chat-completion service.                                                *)
(*                                                                         *)
(* Python strings are sequences of one-character strings, so that lower(), *)
(* strip(), split(), startswith(), "in" and re.search act on characters.   *)
(***************************************************************************)
EXTENDS Integers, Sequences, FiniteSets

VARIABLES
    pc,              \* position of the handler that is running
    route,           \* "none", "chat" or "search": the endpoint being served
    frames,          \* memory store: number of frames put so far
    message,         \* chat: data['message'].strip(); search: request arg q
    stats_before,    \* mv.stats(): frame_count, has_vec_index, has_lex_index
    search_query,    \* chat: the query given to mv.find
    search_results,  \* the hits mv.find returned (search_results["hits"])
    search_mode,     \* "none", "lex" or "sem"
    find_calls,      \* the mv.find calls of this request: query, k, mode, raised
    filtered_hits,   \* chat: the sorted survivors; search: filtered_results
    raw_results,     \* search: raw_results
    memories_used,   \* chat: memories_used
    memories_str,    \* chat: the text appended to the system prompt
    search_details,  \* chat: search_details of the response
    assistant_response, \* chat: the text the chat-completion call returned
    store_calls,     \* chat: the put / seal calls attempted by this request
    stored_count,    \* chat: stored_count
    apply_filter,    \* search: the request argument filter
    status           \* HTTP status of the response, 0 while none is sent

vars == <<pc, route, frames, message, stats_before, search_query,
          search_results, search_mode, find_calls, filtered_hits,
          raw_results, memories_used, memories_str, search_details,
          assistant_response, store_calls, stored_count, apply_filter,
          status>>

---------------------------------------------------------------------------
(* Characters and the str methods the handlers use.                        *)

UpperAlpha == <<"A","B","C","D","E","F","G","H","I","J","K","L","M",
                "N","O","P","Q","R","S","T","U","V","W","X","Y","Z">>
LowerAlpha == <<"a","b","c","d","e","f","g","h","i","j","k","l","m",
                "n","o","p","q","r","s","t","u","v","w","x","y","z">>
Digits == {"0","1","2","3","4","5","6","7","8","9"}

UpperSet == {UpperAlpha[i] : i \in DOMAIN UpperAlpha}
LowerSet == {LowerAlpha[i] : i \in DOMAIN LowerAlpha}

\* str.isspace() for the characters of the model's alphabet
IsSpace(c) == c \in {" ", "\n", "\t", "\r"}

\* the regular-expression class \w
IsWordChar(c) == c \in LowerSet \cup UpperSet \cup Digits \cup {"_"}

\* str.isupper() of one character
IsUpper(c) == c \in UpperSet

LowerChar(c) ==
    IF c \in UpperSet
    THEN LowerAlpha[CHOOSE i \in DOMAIN UpperAlpha : UpperAlpha[i] = c]
    ELSE c

\* s.lower()
Lower(s) == [i \in 1..Len(s) |-> LowerChar(s[i])]

SetMin(S) == CHOOSE x \in S : \A y \in S : x <= y
SetMax(S) == CHOOSE x \in S : \A y \in S : y <= x

\* s.strip()
Strip(s) ==
    IF \A i \in 1..Len(s) : IsSpace(s[i]) THEN <<>>
    ELSE LET first == CHOOSE i \in 1..Len(s) :
                          ~IsSpace(s[i]) /\ \A j \in 1..(i - 1) : IsSpace(s[j])
             last == CHOOSE i \in 1..Len(s) :
                         ~IsSpace(s[i]) /\ \A j \in (i + 1)..Len(s) : IsSpace(s[j])
         IN  SubSeq(s, first, last)

\* s.startswith(p)
StartsWith(s, p) == Len(p) <= Len(s) /\ SubSeq(s, 1, Len(p)) = p

\* whether p occurs in s at index i
OccursAt(s, p, i) == i + Len(p) - 1 <= Len(s) /\ SubSeq(s, i, i + Len(p) - 1) = p

\* needle in hay
Contains(hay, needle) == \E i \in 1..(Len(hay) + 1) : OccursAt(hay, needle, i)

\* s.replace(c, '') for a one-character c
RemoveChar(s, c) == SelectSeq(s, LAMBDA x : x # c)

\* s.split('\n'): always at least one line
SplitLines(s) ==
    LET nl == {i \in 1..Len(s) : s[i] = "\n"}
        cut == [k \in 0..(Cardinality(nl) + 1) |->
                   IF k = 0 THEN 0
                   ELSE IF k = Cardinality(nl) + 1 THEN Len(s) + 1
                   ELSE CHOOSE p \in nl : Cardinality({q \in nl : q < p}) = k - 1]
    IN  [k \in 1..(Cardinality(nl) + 1) |-> SubSeq(s, cut[k - 1] + 1, cut[k] - 1)]

\* '\n'.join(lines)
RECURSIVE JoinLines(_)
JoinLines(lines) ==
    IF lines = <<>> THEN <<>>
    ELSE IF Len(lines) = 1 THEN lines[1]
    ELSE lines[1] \o <<"\n">> \o JoinLines(Tail(lines))

\* the index where the word that starts at index i ends
WordEnd(s, i) ==
    CHOOSE j \in i..Len(s) :
        /\ j = Len(s) \/ IsSpace(s[j + 1])
        /\ \A m \in i..j : ~IsSpace(s[m])

\* the indices where a maximal run of non-whitespace characters starts
WordStarts(s) == {i \in 1..Len(s) : ~IsSpace(s[i]) /\ (i = 1 \/ IsSpace(s[i - 1]))}

\* set(s.split())
WordSet(s) == {SubSeq(s, i, WordEnd(s, i)) : i \in WordStarts(s)}

\* s.split() as a list, in order (the tokens of has_proper_noun)
WordSeq(s) ==
    LET starts == WordStarts(s)
        nth(k) == CHOOSE p \in starts : Cardinality({q \in starts : q < p}) = k - 1
    IN  [k \in 1..Cardinality(starts) |-> SubSeq(s, nth(k), WordEnd(s, nth(k)))]

\* d.get(key, default) of a dict modelled as a function on its keys
Get(d, key, default) == IF key \in DOMAIN d THEN d[key] ELSE default

---------------------------------------------------------------------------
(* Query Normalizer: chat(), the question templates.                       *)

s_is   == <<"i", "s">>
s_are  == <<"a", "r", "e">>
s_was  == <<"w", "a", "s">>
s_were == <<"w", "e", "r", "e">>
Determiners == <<(<<"m", "y">>), (<<"t", "h", "e">>), (<<"y", "o", "u", "r">>)>>

\* question_patterns, in list order: r'<wh> (<cop>) (my|the|your) (\w+)'
question_patterns ==
    << [wh |-> <<"w", "h", "a", "t">>,      cop |-> <<s_is, s_are>>],
       [wh |-> <<"w", "h", "o">>,           cop |-> <<s_is, s_are>>],
       [wh |-> <<"w", "h", "e", "r", "e">>, cop |-> <<s_is, s_are>>],
       [wh |-> <<"w", "h", "e", "n">>,      cop |-> <<s_is, s_are, s_was, s_were>>],
       [wh |-> <<"h", "o", "w">>,           cop |-> <<s_is, s_are, s_was, s_were>>] >>

\* a key term is used only when len(key_term) > MinKeyLen
MinKeyLen == 2

\* the literal part of a template, one string per choice of the two groups
PatternHeads(pat) ==
    {pat.wh \o <<" ">> \o pat.cop[c] \o <<" ">> \o Determiners[d] \o <<" ">> :
        c \in DOMAIN pat.cop, d \in DOMAIN Determiners}

\* the template matches s at index i: its literal part, then one \w at least
MatchesAt(pat, s, i) ==
    \E h \in PatternHeads(pat) :
        /\ OccursAt(s, h, i)
        /\ i + Len(h) <= Len(s)
        /\ IsWordChar(s[i + Len(h)])

\* mutant: group 3 as (.+), everything that follows the literal part
Group3At_rest(pat, s, i) ==
    LET h == CHOOSE x \in PatternHeads(pat) : OccursAt(s, x, i)
    IN  SubSeq(s, i + Len(h), Len(s))

\* group 3 of the match at i: the longest run of \w after the literal part
Group3At(pat, s, i) ==
    LET h == CHOOSE x \in PatternHeads(pat) : OccursAt(s, x, i)
        b == i + Len(h)
        e == SetMax({j \in b..Len(s) : \A m \in b..j : IsWordChar(s[m])})
    IN  SubSeq(s, b, e)

\* re.search(pattern, s).group(3) of the leftmost match; <<>> when there is none
ReSearch(pat, s) ==
    LET at == {i \in 1..Len(s) : MatchesAt(pat, s, i)}
    IN  IF at = {} THEN <<>> ELSE Group3At(pat, s, SetMin(at))

\* mutant: the loop without its break, so that the last good capture wins
ExtractKeyTerm_noBreak(k, message_lower, default) ==
    LET good == {j \in k..Len(question_patterns) :
                    Len(ReSearch(question_patterns[j], message_lower)) > MinKeyLen}
    IN  IF good = {} THEN default
        ELSE ReSearch(question_patterns[SetMax(good)], message_lower)

\* the body of "for pattern in question_patterns", from pattern k on
RECURSIVE ExtractKeyTerm(_, _, _)
ExtractKeyTerm(k, message_lower, default) ==
    IF k > Len(question_patterns) THEN default
    ELSE LET key_term == ReSearch(question_patterns[k], message_lower)
         IN  IF key_term # <<>> /\ Len(key_term) > MinKeyLen
             THEN key_term
             ELSE ExtractKeyTerm(k + 1, message_lower, default)

\* search_query as computed from the (stripped) message
NormalizeQuery(msg) == ExtractKeyTerm(1, Strip(Lower(msg)), msg)

---------------------------------------------------------------------------
(* Result Filter & Ranker.                                                 *)

MetadataPrefixes ==
    { <<"t", "i", "t", "l", "e", ":">>,
      <<"l", "a", "b", "e", "l", "s", ":">>,
      <<"t", "a", "g", "s", ":">>,
      <<"e", "x", "t", "r", "a", "c", "t", "o", "u", "s", "_",
        "m", "e", "t", "a", "d", "a", "t", "a", ":">> }

FactualMarkers ==
    { <<" ", "i", "s", " ">>, <<" ", "w", "a", "s", " ">>,
      <<" ", "a", "r", "e", " ">>, <<" ", "w", "e", "r", "e", " ">>,
      <<" ", "h", "a", "s", " ">>, <<" ", "h", "a", "v", "e", " ">> }

\* hit.get('title', 'Untitled'); titles are only copied, never inspected
Untitled == "Untitled"

\* scores: a number, None, or a value that is no number
Num(n) == [kind |-> "num", val |-> n]
NoneScore == [kind |-> "none", val |-> 0]
StrScore == [kind |-> "str", val |-> 0]

\* hit.get('snippet', '') or hit.get('text', '') or hit.get('preview', '')
ResolveText(hit) ==
    IF Get(hit, "snippet", <<>>) # <<>> THEN hit["snippet"]
    ELSE IF Get(hit, "text", <<>>) # <<>> THEN hit["text"]
    ELSE Get(hit, "preview", <<>>)

\* any(line.lower().startswith(prefix) for prefix in [...])
IsMetadataLine(line) == \E p \in MetadataPrefixes : StartsWith(Lower(line), p)

\* the "Clean up snippet" block
CleanSnippet(snippet) ==
    IF snippet = <<>> THEN <<>>
    ELSE Strip(JoinLines(SelectSeq(SplitLines(snippet),
                                   LAMBDA line : ~IsMetadataLine(line))))

\* rule (a): the first line is the query, "allowing minor punctuation differences"
FirstLineMatches(snippet_lower, message_lower) ==
    LET snippet_first_line == Strip(SplitLines(snippet_lower)[1])
    IN  \/ snippet_first_line = message_lower
        \/ Strip(RemoveChar(RemoveChar(snippet_first_line, "?"), "!")) = message_lower

\* mutant: the length test without its factor 1.5
SubstringSimilar_shorter(snippet_lower, message_lower) ==
    /\ Contains(snippet_lower, message_lower)
    /\ Len(snippet_lower) < Len(message_lower)

\* rule (b): message_lower in snippet_lower and len(snippet_lower) < len(message_lower) * 1.5
SubstringSimilar(snippet_lower, message_lower) ==
    /\ Contains(snippet_lower, message_lower)
    /\ 2 * Len(snippet_lower) < 3 * Len(message_lower)

\* mutant: the subset test the wrong way round
WordsSubset_reversed(snippet_lower, message_words) ==
    LET snippet_words == WordSet(snippet_lower)
    IN  /\ Cardinality(snippet_words) <= Cardinality(message_words) + 1
        /\ message_words \subseteq snippet_words

\* rule (c): the snippet's words are a subset of the query's words
WordsSubset(snippet_lower, message_words) ==
    LET snippet_words == WordSet(snippet_lower)
    IN  /\ Cardinality(snippet_words) <= Cardinality(message_words) + 1
        /\ snippet_words \subseteq message_words

\* the three "continue" tests of the loop body, on a non-empty cleaned snippet
TooSimilar(snippet, message_lower) ==
    LET snippet_lower == Strip(Lower(snippet))
    IN  \/ FirstLineMatches(snippet_lower, message_lower)
        \/ SubstringSimilar(snippet_lower, message_lower)
        \/ WordsSubset(snippet_lower, WordSet(message_lower))

IsFactual(snippet) ==
    LET snippet_lower == Strip(Lower(snippet))
    IN  \E w \in FactualMarkers : Contains(snippet_lower, w)

HasProperNoun(snippet) ==
    LET words == WordSeq(snippet)
    IN  \E k \in DOMAIN words : Len(words[k]) > 1 /\ IsUpper(words[k][1])


---------------------------------------------------------------------------
(* chat(): the loop over search_results["hits"], the sort and the top 3.   *)

\* the number of memories used at most ("Take top 3 after filtering")
TopN == 3

\* search_details keeps hit['snippet'][:200]
SnippetCap == 200

Take(s, n) == SubSeq(s, 1, IF Len(s) < n THEN Len(s) ELSE n)

\* the comparison string of the filter: original_message.lower().strip()
FilterMessageLower(original_message) == Strip(Lower(original_message))

\* whether the loop body reaches filtered_hits.append for this hit
KeepsHit(hit, message_lower) ==
    LET snippet == CleanSnippet(ResolveText(hit))
    IN  snippet # <<>> /\ ~TooSimilar(snippet, message_lower)

\* the dict appended for the hit at index i of the hit list; i is not a key of
\* the dict: it records the position the hit had in the search results
ChatEntry(hit, i) ==
    LET snippet == CleanSnippet(ResolveText(hit))
    IN  [snippet |-> snippet,
         score |-> Get(hit, "score", Num(0)),
         title |-> Get(hit, "title", Untitled),
         is_factual |-> IsFactual(snippet),
         has_proper_noun |-> HasProperNoun(snippet),
         i |-> i]

\* filtered_hits after the loop, before the sort
ChatFilterHits(hits, message_lower) ==
    LET kept == {i \in DOMAIN hits : KeepsHit(hits[i], message_lower)}
        nth(k) == CHOOSE i \in kept : Cardinality({j \in kept : j < i}) = k - 1
    IN  [k \in 1..Cardinality(kept) |-> ChatEntry(hits[nth(k)], nth(k))]

\* the key lambda raises TypeError on -x['score'] when the score is no number
SortRaises(entries) == \E k \in DOMAIN entries : entries[k].score.kind # "num"

\* mutant: the score not negated, so that low scores come first
KeyLess_ascending(a, b) ==
    \/ a.is_factual /\ ~b.is_factual
    \/ a.is_factual = b.is_factual /\ a.score.val < b.score.val

\* (not a.is_factual, -a.score) < (not b.is_factual, -b.score)
KeyLess(a, b) ==
    \/ a.is_factual /\ ~b.is_factual
    \/ a.is_factual = b.is_factual /\ -a.score.val < -b.score.val

\* filtered_hits.sort(key=...): list.sort is stable, so an element goes
\* behind the elements of smaller key and behind the earlier ones of equal key
SortHits(entries) ==
    LET before(k) == {j \in DOMAIN entries :
                         \/ KeyLess(entries[j], entries[k])
                         \/ ~KeyLess(entries[k], entries[j]) /\ j < k}
        at(p) == CHOOSE k \in DOMAIN entries : Cardinality(before(k)) = p - 1
    IN  [p \in DOMAIN entries |-> entries[at(p)]]

\* mutant: every survivor is used
MemoriesUsed_all(entries) == Len(entries)

\* memories_used = min(len(filtered_hits), 3)
MemoriesUsed(entries) == IF Len(entries) < TopN THEN Len(entries) ELSE TopN

\* memories_str += f"- {hit['snippet']}\n" over the hits used
RECURSIVE MemoriesStr(_)
MemoriesStr(used) ==
    IF used = <<>> THEN <<>>
    ELSE <<"-", " ">> \o used[1].snippet \o <<"\n">> \o MemoriesStr(Tail(used))

\* search_details.append({...}) over the hits used
SearchDetails(used) ==
    [k \in DOMAIN used |-> [title |-> used[k].title,
                            snippet |-> Take(used[k].snippet, SnippetCap),
                            score |-> used[k].score]]

\* the fixed part of system_prompt
BasePrompt ==
    <<"Y", "o", "u", " ", "a", "r", "e", " ", "a", " ", "h", "e", "l", "p",
      "f", "u", "l", " ", "A", "I", " ", "a", "s", "s", "i", "s", "t", "a",
      "n", "t", " ", "w", "i", "t", "h", " ", "m", "e", "m", "o", "r", "y",
      " ", "c", "a", "p", "a", "b", "i", "l", "i", "t", "i", "e", "s", ".",
      " ", "\n", "A", "n", "s", "w", "e", "r", " ", "t", "h", "e", " ",
      "u", "s", "e", "r", "'", "s", " ", "q", "u", "e", "s", "t", "i", "o",
      "n", " ", "b", "a", "s", "e", "d", " ", "o", "n", " ", "t", "h", "e",
      " ", "q", "u", "e", "r", "y", " ", "a", "n", "d", " ", "a", "n", "y",
      " ", "r", "e", "l", "e", "v", "a", "n", "t", " ", "m", "e", "m", "o",
      "r", "i", "e", "s", ".", "\n", "B", "e", " ", "c", "o", "n", "v",
      "e", "r", "s", "a", "t", "i", "o", "n", "a", "l", " ", "a", "n", "d",
      " ", "h", "e", "l", "p", "f", "u", "l", ".">>

\* "\n\nRelevant User Memories:\n"
MemoriesHeading ==
    <<"\n", "\n", "R", "e", "l", "e", "v", "a", "n", "t", " ", "U", "s",
      "e", "r", " ", "M", "e", "m", "o", "r", "i", "e", "s", ":", "\n">>

\* mutant: the heading appended whether or not there are memories
SystemPrompt_always(mstr) == BasePrompt \o MemoriesHeading \o mstr

\* system_prompt: the heading and the memories are appended "if memories_str"
SystemPrompt(mstr) ==
    IF mstr # <<>> THEN BasePrompt \o MemoriesHeading \o mstr ELSE BasePrompt

\* the system message of the chat-completion call
system_prompt == SystemPrompt(memories_str)


---------------------------------------------------------------------------
(* Inputs: the requests and the results of the external calls.             *)

u_name_q == <<"W", "h", "a", "t", " ", "i", "s", " ", "m", "y", " ", "n", "a", "m", "e", "?">>
u_name == <<"w", "h", "a", "t", " ", "i", "s", " ", "m", "y", " ", "n", "a", "m", "e">>
u_hello == <<"h", "e", "l", "l", "o">>
u_tags == <<"t", "a", "g", "s", ":", " ", "x", "\n", "m", "y", " ", "n", "a", "m", "e">>
u_lines == <<"n", "a", "m", "e", " ", "i", "s", "\n", "w", "h", "a", "t">>
u_bob == <<" ", "M", "y", " ", "n", "a", "m", "e", " ", "i", "s", " ", "B", "o", "b", "!", " ">>
u_id == <<"w", "h", "a", "t", " ", "i", "s", " ", "m", "y", " ", "i", "d", " ", "w", "h", "o", " ", "i", "s", " ", "m", "y", " ", "f", "a", "t", "h", "e", "r">>
u_blank == <<" ", " ">>
t_name == <<"W", "h", "a", "t", " ", "i", "s", " ", "m", "y", " ", "n", "a", "m", "e">>
t_note == <<"t", "i", "t", "l", "e", ":", " ", "M", "y", " ", "N", "o", "t", "e", "\n", "l", "a", "b", "e", "l", "s", ":", " ", "x", "\n", "T", "h", "e", " ", "s", "k", "y", " ", "i", "s", " ", "b", "l", "u", "e">>
t_indent == <<"T", "h", "e", " ", "s", "k", "y", " ", "i", "s", " ", "b", "l", "u", "e", "\n", " ", " ", "t", "a", "g", "s", ":", " ", "x">>
t_meta == <<"t", "i", "t", "l", "e", ":", " ", "x">>
t_nameis == <<"n", "a", "m", "e", " ", "i", "s">>
t_bob == <<"m", "y", " ", "n", "a", "m", "e", " ", "i", "s", " ", "b", "o", "b">>
t_well == <<"w", "e", "l", "l", " ", "w", "h", "a", "t", " ", "i", "s", " ", "m", "y", " ", "n", "a", "m", "e">>
t_tea == <<"i", " ", "l", "i", "k", "e", " ", "t", "e", "a">>
t_hot == <<"t", "e", "a", " ", "i", "s", " ", "h", "o", "t">>
t_has == <<"B", "o", "b", " ", "h", "a", "s", " ", "t", "e", "a">>
t_long == <<"w", "e", "l", "l", " ", "w", "h", "a", "t", " ", "i", "s", " ", "m", "y", " ", "n", "a", "m", "e", " ", "t", "h", "e", "n", " ", "b", "o", "b">>
t_ok == <<"o", "k">>
t_fine == <<"f", "i", "n", "e">>

\* data['message'] of a /chat request, q of a /search request
Utterances == {u_name_q, u_name, u_hello, u_tags, u_lines, u_bob, u_id, u_blank, <<>>}

\* the utterances of the runs that vary the hit list
RankUtterances == {u_hello}

\* hits the store can return: dicts with some of the keys snippet, text,
\* preview, score, title
StoreHits ==
    { [snippet |-> t_name, score |-> Num(2), title |-> "h1"],
      [text |-> t_note, score |-> Num(1), title |-> "h2"],
      [snippet |-> <<>>, preview |-> t_indent, score |-> Num(1)],
      [snippet |-> t_meta, score |-> Num(2), title |-> "h4"],
      [snippet |-> t_nameis, text |-> t_bob, score |-> Num(1), title |-> "h5"],
      [snippet |-> t_bob, score |-> Num(0), title |-> "h6"],
      [text |-> t_well, preview |-> t_tea, score |-> Num(1), title |-> "h7"],
      [snippet |-> t_tea, title |-> "h8"],
      [snippet |-> t_long, score |-> Num(1), title |-> "h9"] }

\* hits that differ in is_factual and in score, for the ranking
RankStoreHits ==
    { [snippet |-> t_bob, score |-> Num(1), title |-> "r1"],
      [snippet |-> t_has, title |-> "r2"],
      [snippet |-> t_tea, score |-> Num(2), title |-> "r3"],
      [text |-> t_tea, score |-> Num(0), title |-> "r4"],
      [snippet |-> t_hot, score |-> NoneScore, title |-> "r5"] }

\* the store echoing the user's own message, which an earlier turn has put
EchoHit(msg) == [snippet |-> msg, score |-> Num(3), title |-> "echo"]

\* response.choices[0].message.content
Responses == {t_ok, t_fine}

\* the utterances of the runs that vary the question: at most MaxClauses
\* clauses, each a question head (or none) and a noun, joined by spaces
ClauseHeads == { <<>>, <<"w", "h", "a", "t", " ", "i", "s", " ", "m", "y", " ">>,
                 <<"W", "h", "o", " ", "a", "r", "e", " ", "t", "h", "e", " ">>,
                 <<"h", "o", "w", " ", "w", "a", "s", " ", "y", "o", "u", "r", " ">> }
ClauseNouns == { <<"n", "a", "m", "e">>, <<"i", "d">>, <<"d", "a", "d", "?">> }
Clauses == {h \o w : h \in ClauseHeads, w \in ClauseNouns}

RECURSIVE JoinClauses(_)
JoinClauses(cs) ==
    IF cs = <<>> THEN <<>>
    ELSE IF Len(cs) = 1 THEN cs[1]
    ELSE cs[1] \o <<" ">> \o JoinClauses(Tail(cs))

\* bounds of the model
MaxFrames == 3
MaxHits == 1
MaxRankHits == 4
MaxClauses == 2

\* "Who are the name what is my dad?"
WHO_NAME_WHAT_DAD == <<"W", "h", "o", " ", "a", "r", "e", " ", "t", "h", "e", " ", "n", "a", "m", "e", " ", "w", "h", "a", "t", " ", "i", "s", " ", "m", "y", " ", "d", "a", "d", "?">>

NormUtterances == {JoinClauses(cs) : cs \in UNION {[1..m -> Clauses] : m \in 1..MaxClauses}}

\* the k of the mv.find calls
ChatK == 5
RetryK == 3
VerifyK == 1
VerifyLen == 10
SearchDefaultK == 5

Min(a, b) == IF a < b THEN a ELSE b

\* the lists of at most n hits drawn from pool
HitLists(pool, n) == UNION {[1..m -> pool] : m \in 0..n}

\* what mv.find(query, k, mode) can return: at most k hits
FindResults(pool, msg, k, n) ==
    HitLists(pool \cup {EchoHit(msg)}, Min(k, n))


---------------------------------------------------------------------------
(* The handlers.                                                           *)

NoStats == [frame_count |-> 0, has_vec_index |-> FALSE, has_lex_index |-> FALSE]

\* the request-local variables before a request is received
Locals ==
    /\ route = "none"
    /\ message = <<>>
    /\ stats_before = NoStats
    /\ search_query = <<>>
    /\ search_results = <<>>
    /\ search_mode = "none"
    /\ find_calls = <<>>
    /\ filtered_hits = <<>>
    /\ raw_results = <<>>
    /\ memories_used = 0
    /\ memories_str = <<>>
    /\ search_details = <<>>
    /\ assistant_response = <<>>
    /\ store_calls = <<>>
    /\ stored_count = 0
    /\ apply_filter = FALSE
    /\ status = 0

\* the server is up; the user's memory file may exist from earlier runs
Init == pc = "idle" /\ frames \in 0..MaxFrames /\ Locals

\* mutant: the filter compares with the search query
OriginalMessage_query == search_query

\* original_message = message  # Keep original for filtering
OriginalMessage == message

\* chat(): from the request to the search query
ChatRequest(U) ==
    /\ pc = "idle"
    /\ \E raw \in U, opened \in BOOLEAN, vec \in BOOLEAN, lex \in BOOLEAN :
        LET msg == Strip(raw)
        IN  /\ route' = "chat"
            /\ message' = msg
            /\ IF msg = <<>>
               THEN /\ status' = 400
                    /\ pc' = "done"
                    /\ UNCHANGED <<stats_before, search_query>>
               ELSE IF ~opened
               THEN \* get_memory_instance or mv.stats raised
                    /\ status' = 500
                    /\ pc' = "done"
                    /\ UNCHANGED <<stats_before, search_query>>
               ELSE /\ stats_before' = [frame_count |-> frames,
                                        has_vec_index |-> vec,
                                        has_lex_index |-> lex]
                    /\ status' = 0
                    /\ IF frames > 0
                       THEN search_query' = NormalizeQuery(msg) /\ pc' = "find"
                       ELSE search_query' = <<>> /\ pc' = "filter"
    /\ UNCHANGED <<frames, search_results, search_mode, find_calls, filtered_hits,
                   raw_results, memories_used, memories_str, search_details,
                   assistant_response, store_calls, stored_count, apply_filter>>

\* mutant: semantic search preferred when there is a vector index
FirstMode_semFirst(stats) == IF stats.has_vec_index THEN "sem" ELSE "lex"

\* the mode of the first mv.find: "if has_lex_index: ... elif has_vec_index:"
FirstMode(stats) == IF stats.has_lex_index THEN "lex" ELSE "sem"

\* chat(): the first mv.find and its except clause
ChatFind(pool, n) ==
    /\ pc = "find"
    /\ LET lex == stats_before.has_lex_index
           vec == stats_before.has_vec_index
           mode == FirstMode(stats_before)
           call(raised) == [query |-> search_query, k |-> ChatK, mode |-> mode,
                            raised |-> raised]
       IN  IF ~lex /\ ~vec
           THEN /\ pc' = "filter"
                /\ UNCHANGED <<search_results, search_mode, find_calls>>
           ELSE \/ \E hits \in FindResults(pool, message, ChatK, n) :
                     /\ find_calls' = Append(find_calls, call(FALSE))
                     /\ search_results' = hits
                     /\ search_mode' = mode
                     /\ pc' = "filter"
                \/ \E error_msg \in {"MV011", "vector", "other"} :
                     /\ find_calls' = Append(find_calls, call(TRUE))
                     /\ search_results' = <<>>
                     /\ search_mode' = search_mode
                     /\ pc' = IF error_msg \in {"MV011", "vector"} /\ lex
                              THEN "retry" ELSE "filter"
    /\ UNCHANGED <<route, frames, message, stats_before, search_query, filtered_hits,
                   raw_results, memories_used, memories_str, search_details,
                   assistant_response, store_calls, stored_count, apply_filter, status>>

\* chat(): "Retrying with lexical search after vector error"
ChatRetry(pool, n) ==
    /\ pc = "retry"
    /\ LET call(raised) == [query |-> message, k |-> RetryK, mode |-> "lex",
                            raised |-> raised]
       IN  \/ \E hits \in FindResults(pool, message, RetryK, n) :
                /\ find_calls' = Append(find_calls, call(FALSE))
                /\ search_results' = hits
                /\ search_mode' = "lex"
           \/ /\ find_calls' = Append(find_calls, call(TRUE))
              /\ search_results' = <<>>
              /\ search_mode' = search_mode
    /\ pc' = "filter"
    /\ UNCHANGED <<route, frames, message, stats_before, search_query, filtered_hits,
                   raw_results, memories_used, memories_str, search_details,
                   assistant_response, store_calls, stored_count, apply_filter, status>>

\* chat(): filter, sort, top 3, memories_str and search_details
ChatFilter ==
    /\ pc = "filter"
    /\ IF search_results = <<>>
       THEN /\ pc' = "complete"
            /\ UNCHANGED <<filtered_hits, memories_used, memories_str,
                           search_details, status>>
       ELSE \E kept \in {ChatFilterHits(search_results,
                                       FilterMessageLower(OriginalMessage))} :
                IF SortRaises(kept)
                THEN /\ filtered_hits' = kept
                     /\ status' = 500
                     /\ pc' = "done"
                     /\ UNCHANGED <<memories_used, memories_str, search_details>>
                ELSE \E sorted \in {SortHits(kept)} :
                     LET used == SubSeq(sorted, 1, MemoriesUsed(sorted))
                     IN  /\ filtered_hits' = sorted
                         /\ memories_used' = MemoriesUsed(sorted)
                         /\ memories_str' = MemoriesStr(used)
                         /\ search_details' = SearchDetails(used)
                         /\ pc' = "complete"
                         /\ UNCHANGED status
    /\ UNCHANGED <<route, frames, message, stats_before, search_query, search_results,
                   search_mode, find_calls, raw_results, assistant_response,
                   store_calls, stored_count, apply_filter>>

\* mutant: the turn goes on to the puts when the completion call raised
ChatComplete_storeOnError ==
    /\ pc = "complete"
    /\ \/ \E r \in Responses : assistant_response' = r
       \/ assistant_response' = assistant_response
    /\ pc' = "put_user"
    /\ UNCHANGED <<route, frames, message, stats_before, search_query, search_results,
                   search_mode, find_calls, filtered_hits, raw_results, memories_used,
                   memories_str, search_details, store_calls, stored_count, apply_filter,
                   status>>

\* chat(): openai_client.chat.completions.create
ChatComplete ==
    /\ pc = "complete"
    /\ \/ \E r \in Responses : assistant_response' = r /\ pc' = "put_user" /\ UNCHANGED status
       \/ assistant_response' = assistant_response /\ status' = 500 /\ pc' = "done"
    /\ UNCHANGED <<route, frames, message, stats_before, search_query, search_results,
                   search_mode, find_calls, filtered_hits, raw_results, memories_used,
                   memories_str, search_details, store_calls, stored_count, apply_filter>>

\* mutant: a put that raises ends the request with an error
Put_abort(label, next) ==
    /\ store_calls' = Append(store_calls, label)
    /\ \/ /\ frames < MaxFrames
          /\ frames' = frames + 1
          /\ stored_count' = stored_count + 1
          /\ pc' = next
          /\ UNCHANGED status
       \/ /\ pc' = "done"
          /\ status' = 500
          /\ UNCHANGED <<frames, stored_count>>
    /\ UNCHANGED <<route, message, stats_before, search_query, search_results,
                   search_mode, find_calls, filtered_hits, raw_results, memories_used,
                   memories_str, search_details, assistant_response, apply_filter>>

\* one mv.put inside its own try: it stores a frame or raises
Put(label, next) ==
    /\ store_calls' = Append(store_calls, label)
    /\ \/ frames < MaxFrames /\ frames' = frames + 1 /\ stored_count' = stored_count + 1
       \/ UNCHANGED <<frames, stored_count>>
    /\ pc' = next
    /\ UNCHANGED <<route, message, stats_before, search_query, search_results,
                   search_mode, find_calls, filtered_hits, raw_results, memories_used,
                   memories_str, search_details, assistant_response, apply_filter,
                   status>>

ChatPutUser == pc = "put_user" /\ Put("user_message", "put_assistant")

ChatPutAssistant == pc = "put_assistant" /\ Put("assistant_response", "put_conversation")

ChatPutConversation == pc = "put_conversation" /\ Put("conversation", "seal")

\* chat(): mv.seal(), then the verification search when something was stored
ChatSeal ==
    /\ pc = "seal"
    /\ store_calls' = Append(store_calls, "seal")
    /\ \/ IF stored_count > 0
          THEN \E raised \in BOOLEAN :
                   find_calls' = Append(find_calls, [query |-> Take(message, VerifyLen),
                                                     k |-> VerifyK, mode |-> "lex",
                                                     raised |-> raised])
          ELSE UNCHANGED find_calls
       \/ UNCHANGED find_calls
    /\ pc' = "respond"
    /\ UNCHANGED <<route, frames, message, stats_before, search_query, search_results,
                   search_mode, filtered_hits, raw_results, memories_used, memories_str,
                   search_details, assistant_response, stored_count, apply_filter,
                   status>>

\* chat(): stats_after = mv.stats() and the response
ChatRespond ==
    /\ pc = "respond"
    /\ status' \in {200, 500}
    /\ pc' = "done"
    /\ UNCHANGED <<route, frames, message, stats_before, search_query, search_results,
                   search_mode, find_calls, filtered_hits, raw_results, memories_used,
                   memories_str, search_details, assistant_response, store_calls,
                   stored_count, apply_filter>>


\* search_memories(): the raw_result dict of a hit
SearchEntry(hit) ==
    [title |-> Get(hit, "title", Untitled),
     text |-> Get(hit, "text", <<>>),
     snippet |-> CleanSnippet(ResolveText(hit)),
     score |-> Get(hit, "score", Num(0)),
     label |-> Get(hit, "label", <<>>),
     metadata |-> Get(hit, "metadata", <<>>)]

\* search_memories(): whether the loop body reaches filtered_results.append
SearchKeeps(hit, message_lower, filter) ==
    LET snippet == CleanSnippet(ResolveText(hit))
    IN  ~(filter /\ snippet # <<>> /\ TooSimilar(snippet, message_lower))

\* search_memories(): raw_results and filtered_results of a hit list
SearchRaw(hits) == [k \in DOMAIN hits |-> SearchEntry(hits[k])]

SearchFiltered(hits, query, filter) ==
    SearchRaw(SelectSeq(hits, LAMBDA hit : SearchKeeps(hit, Strip(Lower(query)), filter)))

\* search_memories(): the whole handler; it reads the store and changes nothing
SearchMemories(U, pool, n) ==
    /\ pc = "idle"
    /\ \E query \in U, k \in {SearchDefaultK}, m \in {"auto", "lex", "sem"},
          filter \in BOOLEAN, opened \in BOOLEAN, vec \in BOOLEAN, lex \in BOOLEAN :
        LET mode == IF m = "auto" /\ ~vec THEN "lex" ELSE m
            first(raised) == [query |-> query, k |-> k, mode |-> mode,
                              raised |-> raised]
            second(raised) == [query |-> query, k |-> k, mode |-> "lex",
                               raised |-> raised]
            Answer(hits, used_mode, calls) ==
                /\ search_results' = hits
                /\ search_mode' = used_mode
                /\ find_calls' = calls
                /\ raw_results' = SearchRaw(hits)
                /\ filtered_hits' = SearchFiltered(hits, query, filter)
                /\ status' = 200
            Fail(code, calls) ==
                /\ status' = code
                /\ find_calls' = calls
                /\ UNCHANGED <<search_results, search_mode, raw_results, filtered_hits>>
        IN  /\ route' = "search"
            /\ message' = query
            /\ apply_filter' = filter
            /\ IF query = <<>> THEN Fail(400, <<>>)
               ELSE IF ~opened THEN Fail(500, <<>>)
               ELSE IF m = "sem" /\ ~vec THEN Fail(400, <<>>)
               ELSE \/ \E hits \in FindResults(pool, query, k, n) :
                         Answer(hits, mode, <<first(FALSE)>>)
                    \/ /\ mode # "lex" /\ lex
                       /\ \E hits \in FindResults(pool, query, k, n) :
                             Answer(hits, "lex", <<first(TRUE), second(FALSE)>>)
                    \/ /\ mode # "lex" /\ lex
                       /\ Fail(500, <<first(TRUE), second(TRUE)>>)
                    \/ /\ ~(mode # "lex" /\ lex)
                       /\ Fail(500, <<first(TRUE)>>)
    /\ pc' = "done"
    /\ UNCHANGED <<frames, stats_before, search_query, memories_used, memories_str,
                   search_details, assistant_response, store_calls, stored_count>>

\* the response is sent; the server waits for the next request
NextRequest ==
    /\ pc = "done"
    /\ pc' = "idle"
    /\ route' = "none"
    /\ message' = <<>>
    /\ stats_before' = NoStats
    /\ search_query' = <<>>
    /\ search_results' = <<>>
    /\ search_mode' = "none"
    /\ find_calls' = <<>>
    /\ filtered_hits' = <<>>
    /\ raw_results' = <<>>
    /\ memories_used' = 0
    /\ memories_str' = <<>>
    /\ search_details' = <<>>
    /\ assistant_response' = <<>>
    /\ store_calls' = <<>>
    /\ stored_count' = 0
    /\ apply_filter' = FALSE
    /\ status' = 0
    /\ UNCHANGED frames

Next ==
    \/ ChatRequest(Utterances)
    \/ ChatFind(StoreHits, MaxHits)
    \/ ChatRetry(StoreHits, MaxHits)
    \/ ChatFilter
    \/ ChatComplete
    \/ ChatPutUser
    \/ ChatPutAssistant
    \/ ChatPutConversation
    \/ ChatSeal
    \/ ChatRespond
    \/ SearchMemories(Utterances, StoreHits, MaxHits)
    \/ NextRequest

Spec == Init /\ [][Next]_vars

\* chat() up to the top 3, on hit lists long enough for the ranking, the
\* store holding one frame
InitRank == pc = "idle" /\ frames = 1 /\ Locals

NextRank ==
    \/ ChatRequest(RankUtterances)
    \/ ChatFind(RankStoreHits, MaxRankHits)
    \/ ChatRetry(RankStoreHits, MaxRankHits)
    \/ ChatFilter

SpecRank == InitRank /\ [][NextRank]_vars

\* the Query Normalizer on the questions of NormUtterances, the store not empty
InitNorm == pc = "idle" /\ frames \in 1..MaxFrames /\ Locals

NextNorm == ChatRequest(NormUtterances)

SpecNorm == InitNorm /\ [][NextNorm]_vars

---------------------------------------------------------------------------
(* Properties.                                                             *)

\* chat() has filtered and ranked: filtered_hits is the sorted list
Ranked == route = "chat" /\ pc = "complete"

\* the utterance the filter is to compare with
UtteranceLower == Strip(Lower(message))

\* C1: self-exclusion in /chat. A hit whose resolved text equals the
\* utterance is never among the memories used, and the snippet it cleans to
\* is in no entry of search_details.
C1_SelfExclusion ==
    route = "chat" =>
        /\ \A k \in 1..memories_used :
              ResolveText(search_results[filtered_hits[k].i]) # message
        /\ \A j \in DOMAIN search_results :
              ResolveText(search_results[j]) = message =>
                  \A d \in DOMAIN search_details :
                      search_details[d].snippet # Take(CleanSnippet(message), SnippetCap)

\* C1 witness: the filter has run on a result that echoes a two-line
\* utterance with a metadata line, and has used nothing
C1_Witness ==
    /\ Ranked
    /\ message = u_tags
    /\ \E j \in DOMAIN search_results : ResolveText(search_results[j]) = message
    /\ memories_used = 0

\* C2: ranking in /chat. The ranked list holds each surviving hit once; a
\* hit is factual iff its lower-cased snippet contains a space-padded marker;
\* factual hits precede the others, scores do not increase within a group,
\* and hits of equal (is_factual, score) keep their search-result order.
C2_Ranking ==
    Ranked =>
        /\ \A a \in DOMAIN filtered_hits :
              /\ filtered_hits[a].i \in DOMAIN search_results
              /\ filtered_hits[a].snippet =
                     CleanSnippet(ResolveText(search_results[filtered_hits[a].i]))
              /\ filtered_hits[a].is_factual <=>
                     \E w \in FactualMarkers :
                         Contains(Lower(filtered_hits[a].snippet), w)
        /\ \A a \in DOMAIN filtered_hits : \A b \in DOMAIN filtered_hits :
              a < b =>
                  LET x == filtered_hits[a]
                      y == filtered_hits[b]
                  IN  /\ x.i # y.i
                      /\ y.is_factual => x.is_factual
                      /\ x.is_factual = y.is_factual => x.score.val >= y.score.val
                      /\ (x.is_factual = y.is_factual /\ x.score.val = y.score.val)
                             => x.i < y.i

\* C2 witness: a factual hit ranked ahead of a non-factual hit of higher
\* score that came first in the search results, and two hits of equal key
C2_Witness ==
    /\ Ranked
    /\ \E a \in DOMAIN filtered_hits : \E b \in DOMAIN filtered_hits :
          /\ a < b
          /\ filtered_hits[a].is_factual /\ ~filtered_hits[b].is_factual
          /\ filtered_hits[a].score.val < filtered_hits[b].score.val
          /\ filtered_hits[b].i < filtered_hits[a].i
    /\ \E a \in DOMAIN filtered_hits : \E b \in DOMAIN filtered_hits :
          /\ a < b
          /\ filtered_hits[a].is_factual = filtered_hits[b].is_factual
          /\ filtered_hits[a].score = filtered_hits[b].score

\* C3: limit respected in /chat. memories_used is at most 3 and at most the
\* number of hits, is 3 when 3 hits or more survive, and the memories used
\* are the first min(3, survivors) ranked hits, in order, in search_details
\* and in memories_str.
C3_Limit ==
    Ranked =>
        /\ memories_used <= 3
        /\ memories_used <= Len(search_results)
        /\ memories_used <= Len(filtered_hits)
        /\ Len(filtered_hits) >= 3 => memories_used = 3
        /\ Len(filtered_hits) < 3 => memories_used = Len(filtered_hits)
        /\ Len(search_details) = memories_used
        /\ \A k \in 1..memories_used :
              /\ search_details[k].snippet = filtered_hits[k].snippet
              /\ search_details[k].title = filtered_hits[k].title
              /\ search_details[k].score = filtered_hits[k].score
        /\ memories_str = MemoriesStr(SubSeq(filtered_hits, 1, memories_used))

\* C3 witness: four hits survive and three are used
C3_Witness == Ranked /\ Len(filtered_hits) = 4 /\ memories_used = 3

\* the Query Normalizer has run on the utterance
Normalized == route = "chat" /\ pc = "find"

\* the templates that match the lower-cased utterance, by list position
MatchingTemplates ==
    {k \in DOMAIN question_patterns : ReSearch(question_patterns[k], UtteranceLower) # <<>>}

\* the noun captured by the matching template of highest priority
FirstCapture == ReSearch(question_patterns[SetMin(MatchingTemplates)], UtteranceLower)

\* C4: Query Normalizer extraction. When the first template in priority
\* order that matches captures a noun of more than 2 characters, the search
\* query is that noun, one lower-cased word, whatever later templates match.
C4_Extraction ==
    (Normalized /\ MatchingTemplates # {} /\ Len(FirstCapture) > 2) =>
        /\ search_query = FirstCapture
        /\ search_query = Lower(search_query)
        /\ \A c \in DOMAIN search_query : IsWordChar(search_query[c])

\* C4 witness: "Who are the name what is my dad?": the who-template matches
\* first in the text, the what-template has priority and gives "dad"
C4_Witness ==
    /\ Normalized
    /\ message = WHO_NAME_WHAT_DAD
    /\ Cardinality(MatchingTemplates) = 2
    /\ search_query = <<"d", "a", "d">>

\* C5: Query Normalizer fallback, as claimed. The first matching template
\* decides alone: with no match, or with a first capture of 2 characters or
\* fewer, the search query is the utterance.
C5_FirstMatchDecides ==
    (Normalized /\ (MatchingTemplates = {} \/ Len(FirstCapture) <= 2)) =>
        search_query = message

\* trailing '?' and '!' removed
RStripMarks(s) ==
    IF \A i \in 1..Len(s) : s[i] \in {"?", "!"} THEN <<>>
    ELSE SubSeq(s, 1, CHOOSE i \in 1..Len(s) :
                          s[i] \notin {"?", "!"} /\ \A j \in (i + 1)..Len(s) : s[j] \in {"?", "!"})

\* leading whitespace removed
LStrip(s) ==
    IF \A i \in 1..Len(s) : IsSpace(s[i]) THEN <<>>
    ELSE SubSeq(s, CHOOSE i \in 1..Len(s) :
                       ~IsSpace(s[i]) /\ \A j \in 1..(i - 1) : IsSpace(s[j]), Len(s))

\* the first line of a snippet, lower-cased and trimmed
FirstLineLower(snippet) == Strip(SplitLines(Lower(snippet))[1])

\* C6: near-duplicate rule (a), as claimed. No surviving hit has a first
\* line that equals the lower-cased utterance, or the lower-cased utterance
\* with its trailing '?' / '!' stripped.
C6_FirstLineRule ==
    Ranked =>
        \A k \in DOMAIN filtered_hits :
            /\ FirstLineLower(filtered_hits[k].snippet) # UtteranceLower
            /\ FirstLineLower(filtered_hits[k].snippet) # Strip(RStripMarks(UtteranceLower))

\* cleaning as claimed: the lines whose lower-cased, left-trimmed content
\* starts with a metadata prefix are removed
CleanLeftTrimmed(text) ==
    Strip(JoinLines(SelectSeq(SplitLines(text),
        LAMBDA line : ~\E p \in MetadataPrefixes : StartsWith(LStrip(Lower(line)), p))))

\* C7: metadata stripping, as claimed. Every snippet of raw_results (/search)
\* and of the surviving hits (/chat) is the hit's text without its metadata
\* lines, indented ones included.
C7_MetadataStripping ==
    /\ Ranked =>
          \A k \in DOMAIN filtered_hits :
              filtered_hits[k].snippet =
                  CleanLeftTrimmed(ResolveText(search_results[filtered_hits[k].i]))
    /\ (route = "search" /\ status = 200) =>
          \A k \in DOMAIN raw_results :
              raw_results[k].snippet = CleanLeftTrimmed(ResolveText(search_results[k]))

\* C8: the filter of /chat compares with the original utterance. The hits
\* that survive are those the near-duplicate rules keep for the utterance,
\* also when the search query is an extracted noun.
C8_FilterUsesUtterance ==
    Ranked =>
        {filtered_hits[k].i : k \in DOMAIN filtered_hits} =
            {j \in DOMAIN search_results :
                LET snippet == CleanSnippet(ResolveText(search_results[j]))
                IN  snippet # <<>> /\ ~TooSimilar(snippet, UtteranceLower)}

\* C8 witness: the query is the extracted noun "name", and the hit
\* "What is my name" is dropped, which the rules would keep for "name"
C8_Witness ==
    /\ Ranked
    /\ message = u_name
    /\ search_query = <<"n", "a", "m", "e">>
    /\ \E j \in DOMAIN search_results :
          /\ ResolveText(search_results[j]) = t_name
          /\ ~TooSimilar(t_name, Strip(Lower(search_query)))
          /\ \A k \in DOMAIN filtered_hits : filtered_hits[k].i # j

\* C9: empty snippets are dropped, as claimed. No entry of the filtered
\* output of /chat, or of /search with filter=true, has an empty snippet.
C9_NoEmptySnippet ==
    (route = "chat" \/ (route = "search" /\ apply_filter)) =>
        \A k \in DOMAIN filtered_hits : filtered_hits[k].snippet # <<>>

\* C10: score defaulting, as claimed. The filter-and-rank step raises for no
\* hit list: a request whose search returned hits does not end in status 500
\* at that step, and every surviving hit is ranked with a number as score.
C10_ScoreDefaulting ==
    (route = "chat" /\ search_results # <<>>) =>
        /\ ~(pc = "done" /\ status = 500 /\ assistant_response = <<>>
             /\ memories_used = 0 /\ filtered_hits # <<>>)
        /\ \A k \in DOMAIN filtered_hits : filtered_hits[k].score.kind = "num"

---------------------------------------------------------------------------
(* The search calls of chat() and what reaches the filter.                 *)

\* the mv.find calls of chat() whose hits go to the filter: the first attempt
\* and the retry (the verification search after seal has k = 1)
FilterCalls == SelectSeq(find_calls, LAMBDA c : c.k # VerifyK)

\* C11: whenever a memory search of /chat raises, no further search is made,
\* the filter receives no hit, no memory is used or put into the prompt, and
\* the request has not failed when it reaches the chat completion.
C11_SearchFailure ==
    (route = "chat" /\ \E c \in DOMAIN FilterCalls : FilterCalls[c].raised)
        => /\ Len(FilterCalls) = 1
           /\ search_results = <<>>
           /\ memories_used = 0
           /\ memories_str = <<>>
           /\ pc \in {"retry", "filter", "complete"} => status = 0

\* C12: every search of /chat whose hits the filter consumes was issued with
\* the query the normalizer produced for the request (search_query).
C12_NormalizedQuery ==
    route = "chat"
        => \A c \in DOMAIN FilterCalls :
               ~FilterCalls[c].raised => FilterCalls[c].query = search_query

---------------------------------------------------------------------------
(* The Query Normalizer applied to its own output.                         *)

\* C13: normalizing the query the normalizer produced for an utterance gives
\* that query again, normalize(normalize(u)) = normalize(u).
C13_Idempotent ==
    (route = "chat" /\ pc = "find")
        => /\ search_query = NormalizeQuery(message)
           /\ NormalizeQuery(search_query) = search_query

\* a noun was extracted from an utterance of two question clauses
C13_Witness ==
    /\ route = "chat" /\ pc = "find"
    /\ search_query # message
    /\ Cardinality(MatchingTemplates) = 2
    /\ NormalizeQuery(search_query) = search_query

---------------------------------------------------------------------------
(* The near-duplicate rules (b) and (c) on the filtered output.            *)

\* the filter has run: /chat past its loop, or /search answered with filter=true
Filtered ==
    \/ route = "chat" /\ pc \in {"complete", "put_user", "put_assistant",
                                 "put_conversation", "seal", "respond", "done"}
    \/ route = "search" /\ apply_filter /\ status = 200

\* the lower-cased words of a text
LowerWords(text) == WordSet(Strip(Lower(text)))

\* the condition of rule (c) on a cleaned snippet, for the utterance
SubsetOfUtterance(snippet) ==
    /\ LowerWords(snippet) \subseteq LowerWords(message)
    /\ Cardinality(LowerWords(snippet)) <= Cardinality(LowerWords(message)) + 1

\* C14: rule (c), subset suppression. No hit whose cleaned snippet has all
\* its lower-cased words among the utterance's words (and at most one word
\* more than the utterance has) is in the output of /chat or in
\* filtered_results of /search with filter=true.
C14_SubsetSuppression ==
    Filtered => \A k \in DOMAIN filtered_hits :
                    ~SubsetOfUtterance(filtered_hits[k].snippet)

\* the lower-cased utterance occurs in the lower-cased snippet
ContainsUtterance(snippet) == Contains(Strip(Lower(snippet)), Strip(Lower(message)))

\* the snippet is less than 1.5 times as long as the utterance
ShorterThanOneAndAHalf(snippet) ==
    2 * Len(Strip(Lower(snippet))) < 3 * Len(Strip(Lower(message)))

\* the cleaned snippets of the hits the search returned
CleanedHits == {CleanSnippet(ResolveText(search_results[j])) : j \in DOMAIN search_results}

\* the snippets of the filtered output
OutputSnippets == {filtered_hits[k].snippet : k \in DOMAIN filtered_hits}

\* C15: rule (b), substring suppression. No hit whose cleaned snippet
\* contains the utterance and is less than 1.5 times as long is in the
\* filtered output; a hit whose snippet contains the utterance and is at
\* least 1.5 times as long is missing from the output only when rule (a) or
\* rule (c) dropped it.
C15_SubstringSuppression ==
    Filtered =>
        /\ \A s \in OutputSnippets :
               ~(ContainsUtterance(s) /\ ShorterThanOneAndAHalf(s))
        /\ \A s \in CleanedHits :
               (s # <<>> /\ ContainsUtterance(s) /\ ~ShorterThanOneAndAHalf(s)
                    /\ s \notin OutputSnippets)
                   => \/ FirstLineMatches(Strip(Lower(s)), Strip(Lower(message)))
                      \/ WordsSubset(Strip(Lower(s)), LowerWords(message))

\* C15 witness: the utterance "what is my name" and the
\* hit "well what is my name": the utterance occurs in it, 20 < 22.5, neither
\* rule (a) nor rule (c) applies, and the hit is not in the output
C15_Witness ==
    /\ Filtered
    /\ message = u_name
    /\ t_well \in CleanedHits
    /\ ContainsUtterance(t_well) /\ ShorterThanOneAndAHalf(t_well)
    /\ ~FirstLineMatches(t_well, u_name)
    /\ ~SubsetOfUtterance(t_well)
    /\ t_well \notin OutputSnippets

---------------------------------------------------------------------------
(* The system prompt.                                                      *)

\* the literal heading
Heading == <<"R", "e", "l", "e", "v", "a", "n", "t", " ", "U", "s", "e", "r", " ",
             "M", "e", "m", "o", "r", "i", "e", "s", ":">>

\* the text of the prompt that follows the heading line
UnderHeading ==
    LET at == SetMin({i \in 1..Len(system_prompt) : OccursAt(system_prompt, Heading, i)})
    IN  SubSeq(system_prompt, at + Len(Heading) + 1, Len(system_prompt))

\* the ranked snippets used, at most three, each rendered as "- " + snippet
RankedEntries ==
    [k \in 1..(IF Len(filtered_hits) < 3 THEN Len(filtered_hits) ELSE 3) |->
        <<"-", " ">> \o filtered_hits[k].snippet]

\* C16: prompt construction. The system prompt holds the heading exactly
\* when a hit survived the filter; under the heading stand the top three
\* ranked snippets, in ranked order, each as "- " + snippet, separated by
\* newlines (the last one is terminated by a newline too), and nothing else.
C16_Prompt ==
    Ranked =>
        /\ Contains(system_prompt, Heading) <=> filtered_hits # <<>>
        /\ filtered_hits # <<>> =>
               UnderHeading = JoinLines(RankedEntries) \o <<"\n">>

\* C16 witness: four hits survived; three of them are under the heading
C16_Witness ==
    /\ Ranked
    /\ Len(filtered_hits) = 4
    /\ Contains(system_prompt, Heading)
    /\ UnderHeading = JoinLines(RankedEntries) \o <<"\n">>
    /\ ~Contains(UnderHeading, filtered_hits[4].snippet)

---------------------------------------------------------------------------
(* The storage sequence of a turn.                                         *)

\* the calls of a turn on the store, in the order of the code
StorageOrder == <<"user_message", "assistant_response", "conversation", "seal">>

\* the number of store calls attempted when the handler is at a position
CallsBefore(p) ==
    CASE p = "put_user" -> 0
      [] p = "put_assistant" -> 1
      [] p = "put_conversation" -> 2
      [] p = "seal" -> 3
      [] OTHER -> 4

\* C17: storage sequence. A turn that received an assistant reply attempts
\* the three puts in the order user message, assistant response, combined
\* conversation, each one whether or not an earlier one failed, and then one
\* seal; no put or seal failure ends the request: it is still without an
\* error status when it reaches the response.
C17_StorageSequence ==
    (route = "chat" /\ assistant_response # <<>>)
        => /\ store_calls = SubSeq(StorageOrder, 1, CallsBefore(pc))
           /\ pc # "done" => status = 0

\* C17 witness: the reply came, at least one put failed, and the turn has the
\* three puts and the seal behind it and answers 200
C17_Witness ==
    /\ route = "chat" /\ pc = "done" /\ status = 200
    /\ assistant_response # <<>>
    /\ stored_count < 3
    /\ store_calls = StorageOrder

\* C18: a turn that fails at the chat completion or before it. The request
\* is answered with status 500 (400 when the message is empty), no put and
\* no seal was attempted, and the store holds what it held before.
C18_FailedTurn ==
    (route = "chat" /\ pc = "done" /\ assistant_response = <<>>)
        => /\ status = IF message = <<>> THEN 400 ELSE 500
           /\ store_calls = <<>>
           /\ stored_count = 0
           /\ stats_before.frame_count \in {0, frames}

\* C18 witness: memories were found and used, the completion call raised,
\* and the request ended with 500 and an untouched store
C18_Witness ==
    /\ route = "chat" /\ pc = "done" /\ status = 500
    /\ assistant_response = <<>>
    /\ memories_used > 0
    /\ store_calls = <<>>
    /\ frames = stats_before.frame_count

---------------------------------------------------------------------------
(* Search-mode selection of chat().                                        *)

\* C19: search-mode selection. No search feeds the filter when frame_count
\* is 0 or neither index exists; a search is lexical exactly when a lexical
\* index exists; there are at most two searches, and a second one only
\* after a lexical first attempt raised, never after a semantic one.
C19_SearchMode ==
    route = "chat" =>
        /\ (stats_before.frame_count = 0
                \/ (~stats_before.has_lex_index /\ ~stats_before.has_vec_index))
               => FilterCalls = <<>>
        /\ Len(FilterCalls) <= 2
        /\ \A c \in DOMAIN FilterCalls :
               /\ FilterCalls[c].mode = "lex" <=> stats_before.has_lex_index
               /\ FilterCalls[c].mode = "sem" <=> ~stats_before.has_lex_index
        /\ (pc = "retry" \/ Len(FilterCalls) = 2)
               => /\ FilterCalls[1].mode = "lex"
                  /\ FilterCalls[1].raised
        /\ (FilterCalls # <<>> /\ FilterCalls[1].mode = "sem" /\ FilterCalls[1].raised)
               => Len(FilterCalls) = 1 /\ pc # "retry"

\* C19 witness: the lexical first attempt raised, the lexical retry returned
\* a hit; both indexes exist
C19_Witness ==
    /\ route = "chat"
    /\ stats_before.has_lex_index /\ stats_before.has_vec_index
    /\ Len(FilterCalls) = 2
    /\ FilterCalls[1].mode = "lex" /\ FilterCalls[1].raised
    /\ FilterCalls[2].mode = "lex" /\ ~FilterCalls[2].raised
    /\ search_results # <<>>

====
